---- MODULE Spec2Model ----
(***************************************************************************)
(* Model of pkg/skaffold/deploy/v2/kpt/kpt.go: the kpt v2 Deployer, its    *)
(* Kptfile reconciler (kptfileInitIfNot) and the Deploy / Cleanup          *)
(* operations that run it before `kpt live apply` / `kpt live destroy`.    *)
(*                                                                         *)
(* The Kptfile on disk, the Deployer's fields and the position of the      *)
(* running operation are the state.  Every external call (kpt, the file    *)
(* system) is a step whose outcome is chosen nondeterministically.         *)
(***************************************************************************)
EXTENDS Integers, Sequences, FiniteSets, TLC

\* ---------------------------------------------------------------- bounds
\* Number of Deploy / Cleanup calls made on the one Deployer.
MaxRuns == 2

\* ------------------------------------------------------------- constants
deployerName == "kptV2"
defaultNs == "default"
\* k.applyDir (d.Dir) and filepath.Join(k.applyDir, kptfile.KptFileName)
applyDir == "dir"
kptFilePath == "dir/Kptfile"

\* Values the configuration and the Kptfile draw their fields from.
IDs == {"", "x", "y"}
Names == {"", "app1", "old", "new"}
Namespaces == {"", "default", "ns-a", "ns-b", "ns-c"}
FlagSets == {<<"--context=c">>}
\* Names a configuration asks for, and names found in a Kptfile.
DesiredNames == {"", "app1", "new"}
StoredNames == {"app1", "old", "new"}
StoredIDs == {"x", "y"}

\* kptfile.KptFile.Inventory: a nil pointer (present = FALSE) or the block.
NilInventory == [present |-> FALSE, InventoryID |-> "", Name |-> "", Namespace |-> ""]
InventoryOf(id, name, ns) ==
  [present |-> TRUE, InventoryID |-> id, Name |-> name, Namespace |-> ns]
Inventories ==
  {NilInventory} \cup {InventoryOf(i, n, s) : i \in IDs, n \in Names, s \in Namespaces}
StoredInventories ==
  {NilInventory} \cup
  {InventoryOf(i, n, s) : i \in StoredIDs, n \in StoredNames, s \in Namespaces}

\* The Kptfile on disk: absent, present but not decodable, or decodable.
AbsentFile == [exists |-> FALSE, wellformed |-> FALSE, Inventory |-> NilInventory]
TornFile == [exists |-> TRUE, wellformed |-> FALSE, Inventory |-> NilInventory]
FileOf(inv) == [exists |-> TRUE, wellformed |-> TRUE, Inventory |-> inv]
Files == {AbsentFile, TornFile} \cup {FileOf(inv) : inv \in Inventories}
InitialFiles == {AbsentFile, TornFile} \cup {FileOf(inv) : inv \in StoredInventories}

\* The Deployer fields the reconciler reads (struct Deployer + KptV2Deploy).
Deployers ==
  [Name : DesiredNames, InventoryID : IDs, namespace : Namespaces,
   InventoryNamespace : Namespaces, Force : BOOLEAN, Flags : FlagSets,
   ApplyFlags : {<<"--reconcile-timeout=1m">>}]

VARIABLES
  kptfile,    \* the Kptfile at kptFilePath
  k,          \* the Deployer
  op,         \* "none", "deploy" or "cleanup": the operation in progress / last run
  pc,         \* position inside the operation
  runs,       \* operations started so far
  kfConfig,   \* local kfConfig of kptfileInitIfNot (decoded Kptfile)
  calls,      \* external calls of the current operation, in order
  warnings,   \* logrus.Warnf records of the current operation, in order
  events,     \* event.DeployInfoEvent records of the current operation
  manifests,  \* local manifests of Deploy
  namespaces, \* local namespaces of Deploy
  tracked,    \* TrackBuildArtifacts was called in the current operation
  err,        \* error returned by kptInitFunc / by the operation ("nil" = none)
  retNs,      \* namespaces returned by Deploy (<<>> = nil slice)
  k0,         \* history: the Deployer when the current operation was entered
  file0,      \* history: the Kptfile when the current operation was entered
  prev,       \* history: entry Deployer and reconciler result of the previous operation
  applied,    \* history: some `kpt live apply` has succeeded
  outcomes,   \* history: for each entry of calls, whether that call succeeded
  prevMerge   \* history: the latest finished reconciler run took the merge branch

vars == <<kptfile, k, op, pc, runs, kfConfig, calls, warnings, events,
          manifests, namespaces, tracked, err, retNs, k0, file0, prev, applied,
          outcomes, prevMerge>>

hist == <<k0, file0, prev, applied, prevMerge>>

\* ------------------------------------------------------------ helpers
Call(cmd, args) == [cmd |-> cmd, args |-> args]

RECURSIVE CountCalls(_, _)
CountCalls(s, cmd) ==
  IF s = <<>> THEN 0
  ELSE (IF Head(s).cmd = cmd THEN 1 ELSE 0) + CountCalls(Tail(s), cmd)

\* position of the first call named cmd in s, 0 when there is none
RECURSIVE FirstCall(_, _)
FirstCall(s, cmd) ==
  IF s = <<>> THEN 0
  ELSE IF Head(s).cmd = cmd THEN 1
  ELSE LET r == FirstCall(Tail(s), cmd) IN IF r = 0 THEN 0 ELSE r + 1

\* adjacent pair <<flag, value>> occurs in an argument list
HasFlag(args, flag, value) ==
  \E i \in 1..(Len(args) - 1) : args[i] = flag /\ args[i + 1] = value
HasOpt(args, flag) == \E i \in 1..Len(args) : args[i] = flag

\* -------------------------------------------------- kptfileInitIfNot parts
\* variant of StatIsNotExist with the test inverted
StatIsNotExistInverted(f) == f.exists

\* line 182: os.IsNotExist(err) of os.Stat(kptFilePath)
StatIsNotExist(f) == ~f.exists

\* variant of InventoryIsNil with the test inverted (!= nil)
InventoryIsNilInverted(cfg) == cfg.present

\* line 204: kfConfig.Inventory == nil
InventoryIsNil(cfg) == ~cfg.present

\* variant of LiveInitArgs that falls back to defaultNs for the namespace
LiveInitArgsWithFallback(d) ==
  <<"live", "init", applyDir>> \o d.Flags
    \o (IF d.Name # "" THEN <<"--name", d.Name>> ELSE <<>>)
    \o (IF d.InventoryID # "" THEN <<"--inventory-id", d.InventoryID>> ELSE <<>>)
    \o (IF d.namespace # "" THEN <<"--namespace", d.namespace>>
        ELSE IF d.InventoryNamespace # "" THEN <<"--namespace", d.InventoryNamespace>>
        ELSE <<"--namespace", defaultNs>>)
    \o (IF d.Force THEN <<"--force", "true">> ELSE <<>>)

\* lines 206-221: argument list of `kpt live init`
LiveInitArgs(d) ==
  <<"live", "init", applyDir>> \o d.Flags
    \o (IF d.Name # "" THEN <<"--name", d.Name>> ELSE <<>>)
    \o (IF d.InventoryID # "" THEN <<"--inventory-id", d.InventoryID>> ELSE <<>>)
    \o (IF d.namespace # "" THEN <<"--namespace", d.namespace>>
        ELSE IF d.InventoryNamespace # "" THEN <<"--namespace", d.InventoryNamespace>>
        ELSE <<>>)
    \o (IF d.Force THEN <<"--force", "true">> ELSE <<>>)

\* variant of MergeInventoryID without the non-empty test
MergeInventoryIDAlways(desired, stored) ==
  IF desired # stored THEN desired ELSE stored

\* lines 230-233
MergeInventoryID(desired, stored) ==
  IF desired # "" /\ desired # stored THEN desired ELSE stored

\* lines 234-237
MergeName(desired, stored) ==
  IF desired # "" /\ desired # stored THEN desired ELSE stored

\* variant of DefaultedNs that leaves an empty namespace empty
DefaultedNsKeepEmpty(ns) == ns

\* lines 239-244: an empty namespace becomes defaultNs
DefaultedNs(ns) == IF ns = "" THEN defaultNs ELSE ns

\* lines 245-251, on the defaulted values
MergeNamespace(ns, invNs, stored) ==
  IF ns # stored THEN ns
  ELSE IF invNs # stored THEN invNs
  ELSE stored

\* lines 230-251: the inventory after the merge branch
MergeInventory(d, inv) ==
  InventoryOf(MergeInventoryID(d.InventoryID, inv.InventoryID),
              MergeName(d.Name, inv.Name),
              MergeNamespace(DefaultedNs(d.namespace),
                             DefaultedNs(d.InventoryNamespace), inv.Namespace))

\* variant of MergeDeployer that gives InventoryNamespace the per-unit value
MergeDeployerShared(d) ==
  [d EXCEPT !.namespace = DefaultedNs(d.namespace),
            !.InventoryNamespace = DefaultedNs(d.namespace)]

\* lines 239-244: the Deployer after the merge branch
MergeDeployer(d) ==
  [d EXCEPT !.namespace = DefaultedNs(d.namespace),
            !.InventoryNamespace = DefaultedNs(d.InventoryNamespace)]

Warn(field, old, new) == [field |-> field, old |-> old, new |-> new]

\* variant of MergeWarnings that warns about the name whenever one is requested
MergeWarningsNameAlways(d, inv) ==
  (IF d.InventoryID # "" /\ d.InventoryID # inv.InventoryID
     THEN <<Warn("inventory", inv.InventoryID, d.InventoryID)>> ELSE <<>>)
  \o (IF d.Name # ""
        THEN <<Warn("name", inv.Name, d.Name)>> ELSE <<>>)
  \o (IF DefaultedNs(d.namespace) # inv.Namespace
        THEN <<Warn("namespace", inv.Namespace, DefaultedNs(d.namespace))>>
      ELSE IF DefaultedNs(d.InventoryNamespace) # inv.Namespace
        THEN <<Warn("namespace", inv.Namespace, DefaultedNs(d.InventoryNamespace))>>
      ELSE <<>>)

\* lines 231, 235, 246, 249: the logrus.Warnf calls of the merge branch
MergeWarnings(d, inv) ==
  (IF d.InventoryID # "" /\ d.InventoryID # inv.InventoryID
     THEN <<Warn("inventory", inv.InventoryID, d.InventoryID)>> ELSE <<>>)
  \o (IF d.Name # "" /\ d.Name # inv.Name
        THEN <<Warn("name", inv.Name, d.Name)>> ELSE <<>>)
  \o (IF DefaultedNs(d.namespace) # inv.Namespace
        THEN <<Warn("namespace", inv.Namespace, DefaultedNs(d.namespace))>>
      ELSE IF DefaultedNs(d.InventoryNamespace) # inv.Namespace
        THEN <<Warn("namespace", inv.Namespace, DefaultedNs(d.InventoryNamespace))>>
      ELSE <<>>)

\* variant of AfterPkgInit that runs `kpt pkg init` again after a failure
AfterPkgInitRetry(ok) == IF ok THEN "open" ELSE "pkgInit"

\* variant of AfterPkgInit that goes on after a failed `kpt pkg init`
AfterPkgInitIgnoreError(ok) == "open"

\* lines 187-190: a failed `kpt pkg init` returns, a successful one goes on
\* to openFile
AfterPkgInit(ok) == IF ok THEN "open" ELSE "initDone"

\* variant of AfterSource that returns from Deploy when the renderer fails
AfterSourceAbortOnError(outcome) ==
  IF outcome = "sourceErr" THEN "idle" ELSE "collectNamespaces"

\* lines 272-276: whatever getManifests returns, Deploy goes on to
\* CollectNamespaces
AfterSource(outcome) == "collectNamespaces"

\* variant of TrackedAfterApply that tracks before looking at the error
TrackedAfterApplyAlways(ok, t) == TRUE

\* lines 294-298: TrackBuildArtifacts is called only after a successful apply
TrackedAfterApply(ok, t) == IF ok THEN TRUE ELSE t

\* variant of DestroyErr that drops the error
DestroyErrDropped(ok) == "nil"

\* lines 327-331: a failed `kpt live destroy` returns liveDestroyErr
DestroyErr(ok) == IF ok THEN "nil" ELSE "liveDestroyErr"

\* variant of InitFailed that ignores the reconciler's error
InitFailedNever(e) == FALSE

\* lines 264 / 318: err != nil after kptInitFunc
InitFailed(e) == e # "nil"

\* ------------------------------------------------------------------ Init
Init ==
  /\ kptfile \in InitialFiles
  /\ k \in Deployers
  /\ op = "none"
  /\ pc = "idle"
  /\ runs = 0
  /\ kfConfig = NilInventory
  /\ calls = <<>>
  /\ warnings = <<>>
  /\ events = <<>>
  /\ manifests = "nil"
  /\ namespaces = <<>>
  /\ tracked = FALSE
  /\ err = "nil"
  /\ retNs = <<>>
  /\ k0 = k
  /\ file0 = kptfile
  /\ prev = [k |-> k, err |-> "none"]
  /\ applied = FALSE
  /\ outcomes = <<>>
  /\ prevMerge = FALSE

\* ------------------------------------------------- entering an operation
\* Deploy (line 263) and Cleanup (line 314) both start with kptInitFunc.
Enter(o) ==
  /\ pc = "idle"
  /\ runs < MaxRuns
  /\ op' = o
  /\ pc' = "stat"
  /\ runs' = runs + 1
  /\ kfConfig' = NilInventory
  /\ calls' = <<>>
  /\ warnings' = <<>>
  /\ events' = <<>>
  /\ manifests' = "nil"
  /\ namespaces' = <<>>
  /\ tracked' = FALSE
  /\ err' = "nil"
  /\ retNs' = <<>>
  /\ k0' = k
  /\ file0' = kptfile
  /\ outcomes' = <<>>
  /\ UNCHANGED <<kptfile, k, prev, applied, prevMerge>>

Deploy == Enter("deploy")

Cleanup == Enter("cleanup")

\* --------------------------------------------------- kptfileInitIfNot
\* lines 181-182: os.Stat(kptFilePath)
Stat ==
  /\ pc = "stat"
  /\ calls' = Append(calls, Call("stat", <<kptFilePath>>))
  /\ outcomes' = Append(outcomes, kptfile.exists)
  /\ pc' = IF StatIsNotExist(kptfile) THEN "pkgInit" ELSE "open"
  /\ UNCHANGED <<kptfile, k, op, runs, kfConfig, warnings, events, manifests,
                 namespaces, tracked, err, retNs>>
  /\ UNCHANGED hist

\* lines 183-190: `kpt pkg init <dir>`; on success the tool has created a
\* Kptfile without inventory, on failure the reconciler returns pkgInitErr.
PkgInit ==
  /\ pc = "pkgInit"
  /\ calls' = Append(calls, Call("pkg init", <<"pkg", "init", applyDir>>))
  /\ \E ok \in BOOLEAN :
       /\ outcomes' = Append(outcomes, ok)
       /\ pc' = AfterPkgInit(ok)
       /\ IF ok
            THEN /\ kptfile' = FileOf(NilInventory)
                 /\ err' = err
            ELSE /\ kptfile' = kptfile
                 /\ err' = "pkgInitErr"
  /\ UNCHANGED <<k, op, runs, kfConfig, warnings, events, manifests,
                 namespaces, tracked, retNs>>
  /\ UNCHANGED hist

\* lines 192-196: openFile(kptFilePath); fails when the file is missing and
\* may fail for any other file-system reason.
OpenFile ==
  /\ pc = "open"
  /\ calls' = Append(calls, Call("open", <<kptFilePath>>))
  /\ \E ok \in BOOLEAN :
       /\ ok => kptfile.exists
       /\ outcomes' = Append(outcomes, ok)
       /\ IF ok
            THEN pc' = "decode" /\ err' = err
            ELSE pc' = "initDone" /\ err' = "openFileErr"
  /\ UNCHANGED <<kptfile, k, op, runs, kfConfig, warnings, events, manifests,
                 namespaces, tracked, retNs>>
  /\ UNCHANGED hist

\* lines 197-204: yaml Decode into kfConfig, then the branch on Inventory
Decode ==
  /\ pc = "decode"
  /\ IF kptfile.wellformed
       THEN /\ kfConfig' = kptfile.Inventory
            /\ pc' = IF InventoryIsNil(kptfile.Inventory) THEN "liveInit" ELSE "merge"
            /\ err' = err
       ELSE /\ kfConfig' = kfConfig
            /\ pc' = "initDone"
            /\ err' = "parseFileErr"
  /\ UNCHANGED <<kptfile, k, op, runs, calls, warnings, events, manifests,
                 namespaces, tracked, retNs, outcomes>>
  /\ UNCHANGED hist

\* lines 205-228: `kpt live init`.  On success the tool writes an inventory
\* block: the values passed on the command line, its own choice for the rest.
LiveInit ==
  /\ pc = "liveInit"
  /\ LET args == LiveInitArgs(k) IN
     /\ calls' = Append(calls, Call("live init", args))
     /\ \E ok \in BOOLEAN, id \in StoredIDs, name \in StoredNames,
           ns \in Namespaces \ {""} :
          /\ k.InventoryID # "" => id = k.InventoryID
          /\ k.Name # "" => name = k.Name
          /\ HasOpt(args, "--namespace") => HasFlag(args, "--namespace", ns)
          /\ outcomes' = Append(outcomes, ok)
          /\ IF ok
               THEN /\ kptfile' = FileOf(InventoryOf(id, name, ns))
                    /\ err' = err
               ELSE /\ kptfile' = kptfile
                    /\ err' = "liveInitErr"
  /\ pc' = "initDone"
  /\ UNCHANGED <<k, op, runs, kfConfig, warnings, events, manifests,
                 namespaces, tracked, retNs>>
  /\ UNCHANGED hist

\* lines 230-251: the merge branch up to the marshal
Merge ==
  /\ pc = "merge"
  /\ kfConfig' = MergeInventory(k, kfConfig)
  /\ k' = MergeDeployer(k)
  /\ warnings' = warnings \o MergeWarnings(k, kfConfig)
  /\ pc' = "write"
  /\ UNCHANGED <<kptfile, op, runs, calls, events, manifests, namespaces,
                 tracked, err, retNs, outcomes>>
  /\ UNCHANGED hist

\* lines 252-258: yaml.Marshal (cannot fail on this struct) and
\* ioutil.WriteFile, which truncates the file and then writes: a failure
\* leaves the old content or a truncated file.
WriteFile ==
  /\ pc = "write"
  /\ calls' = Append(calls, Call("write", <<kptFilePath>>))
  /\ \E outcome \in {"ok", "failBeforeTruncate", "failAfterTruncate"} :
       /\ kptfile' = CASE outcome = "ok" -> FileOf(kfConfig)
                        [] outcome = "failBeforeTruncate" -> kptfile
                        [] OTHER -> TornFile
       /\ err' = IF outcome = "ok" THEN err ELSE "writeFileErr"
       /\ outcomes' = Append(outcomes, outcome = "ok")
  /\ pc' = "initDone"
  /\ UNCHANGED <<k, op, runs, kfConfig, warnings, events, manifests,
                 namespaces, tracked, retNs>>
  /\ UNCHANGED hist

\* ------------------------------------------------------------- Deploy
\* lines 264-266 and 318-320: return the reconciler's error, or go on
AfterInit ==
  /\ pc = "initDone"
  /\ pc' = IF InitFailed(err) THEN "idle"
           ELSE IF op = "deploy" THEN "getManifests" ELSE "destroy"
  /\ prev' = [k |-> k0, err |-> err]
  /\ prevMerge' = (CountCalls(calls, "write") > 0)
  /\ UNCHANGED <<kptfile, k, op, runs, kfConfig, calls, warnings, events,
                 manifests, namespaces, tracked, err, retNs, k0, file0, applied,
                 outcomes>>

\* lines 272-276 with getManifests (148-177): `kpt fn source`; an error gives
\* a nil list and an informational event, never a return.
GetManifests ==
  /\ pc = "getManifests"
  /\ calls' = Append(calls, Call("fn source", <<"fn", "source", applyDir>>))
  /\ \E outcome \in {"sourceErr", "empty", "items"} :
       /\ manifests' = IF outcome = "sourceErr" THEN "nil" ELSE outcome
       /\ outcomes' = Append(outcomes, outcome # "sourceErr")
       /\ pc' = AfterSource(outcome)
       /\ events' = IF outcome = "sourceErr"
                      THEN Append(events, "could not read the hydrated manifest")
                      ELSE events
  /\ UNCHANGED <<kptfile, k, op, runs, kfConfig, warnings, namespaces,
                 tracked, err, retNs>>
  /\ UNCHANGED hist

\* lines 278-284: manifests.CollectNamespaces(); an error gives an event only
CollectNamespaces ==
  /\ pc = "collectNamespaces"
  /\ \E outcome \in {"err", "ok"}, found \in {<<>>, <<"ns-a">>} :
       /\ outcome = "err" => manifests = "items" /\ found = <<>>
       /\ manifests # "items" => found = <<>>
       /\ namespaces' = found
       /\ events' = IF outcome = "err"
                      THEN Append(events, "could not fetch deployed resource namespace")
                      ELSE events
  /\ pc' = "apply"
  /\ UNCHANGED <<kptfile, k, op, runs, kfConfig, calls, warnings, manifests,
                 tracked, err, retNs, outcomes>>
  /\ UNCHANGED hist

\* lines 286-300: `kpt live apply`; failure returns liveApplyErr, success
\* tracks the build artifacts and returns the namespaces.
Apply ==
  /\ pc = "apply"
  /\ calls' = Append(calls,
                Call("live apply", <<"live", "apply", applyDir>> \o k.Flags \o k.ApplyFlags))
  /\ \E ok \in BOOLEAN :
       /\ outcomes' = Append(outcomes, ok)
       /\ tracked' = TrackedAfterApply(ok, tracked)
       /\ IF ok
            THEN retNs' = namespaces /\ err' = "nil" /\ applied' = TRUE
            ELSE retNs' = <<>> /\ err' = "liveApplyErr" /\ applied' = applied
  /\ pc' = "idle"
  /\ UNCHANGED <<kptfile, k, op, runs, kfConfig, warnings, events, manifests,
                 namespaces, k0, file0, prev, prevMerge>>

\* ------------------------------------------------------------ Cleanup
\* lines 322-331: `kpt live destroy`
Destroy ==
  /\ pc = "destroy"
  /\ calls' = Append(calls, Call("live destroy", <<"live", "destroy", applyDir>> \o k.Flags))
  /\ \E ok \in BOOLEAN :
       /\ outcomes' = Append(outcomes, ok)
       /\ err' = DestroyErr(ok)
  /\ pc' = "idle"
  /\ UNCHANGED <<kptfile, k, op, runs, kfConfig, warnings, events, manifests,
                 namespaces, tracked, retNs>>
  /\ UNCHANGED hist

Next ==
  \/ Deploy
  \/ Cleanup
  \/ Stat
  \/ PkgInit
  \/ OpenFile
  \/ Decode
  \/ LiveInit
  \/ Merge
  \/ WriteFile
  \/ AfterInit
  \/ GetManifests
  \/ CollectNamespaces
  \/ Apply
  \/ Destroy

Spec == Init /\ [][Next]_vars

\* the steps inside an operation: every call is blocking and returns
Step ==
  \/ Stat \/ PkgInit \/ OpenFile \/ Decode \/ LiveInit \/ Merge \/ WriteFile
  \/ AfterInit \/ GetManifests \/ CollectNamespaces \/ Apply \/ Destroy

\* Spec with every started operation running on: the code is one synchronous
\* goroutine, so a step that can be taken is taken once the call returns.
FairSpec == Spec /\ WF_vars(Step)

TypeOK ==
  /\ kptfile \in Files
  /\ k \in Deployers
  /\ op \in {"none", "deploy", "cleanup"}
  /\ runs \in 0..MaxRuns
  /\ kfConfig \in Inventories

\* ============================================================== properties
N(cmd) == CountCalls(calls, cmd)

\* kptfileInitIfNot has returned in the current operation
ReconcileReturned ==
  op # "none" /\ pc \in {"initDone", "getManifests", "collectNamespaces", "apply", "destroy", "idle"}

\* the Kptfile was opened and decoded in the current operation
Parsed == ReconcileReturned /\ err \notin {"pkgInitErr", "openFileErr", "parseFileErr"}

\* the inventory block the decode of the current operation found
StoredInv == IF file0.exists THEN file0.Inventory ELSE NilInventory

\* the reconciler has just returned from the merge branch, resp. returned nil from it
MergeReturned == pc = "initDone" /\ N("write") > 0
MergeOk == MergeReturned /\ err = "nil"

\* C1 (as stated): a reconcile run that follows a successful run with the
\* same desired values writes nothing and calls neither initializer.
C1_SecondRunIsNoOp ==
  (pc = "initDone" /\ prev.err = "nil" /\ prev.k = k0)
    => (N("write") = 0 /\ N("pkg init") = 0 /\ N("live init") = 0)

\* C2 (as stated): a run on a Kptfile with inventory whose set desired values
\* all equal the stored ones writes nothing and calls no initializer; a write
\* happens only when some inventory field changed.
C2_NoOpMergeWritesNothing ==
  (pc = "initDone" /\ Parsed /\ StoredInv.present)
    => /\ ( /\ k0.InventoryID \in {"", StoredInv.InventoryID}
            /\ k0.Name \in {"", StoredInv.Name}
            /\ k0.namespace \in {"", StoredInv.Namespace}
            /\ k0.InventoryNamespace \in {"", StoredInv.Namespace} )
          => (N("write") = 0 /\ N("pkg init") = 0 /\ N("live init") = 0)
       /\ N("write") > 0 => kfConfig # StoredInv

\* C3 (as stated): after a merge-branch run with a non-empty per-unit
\* namespace the Kptfile's namespace is the per-unit namespace.
C3_PerUnitNamespaceWins ==
  (MergeOk /\ k0.namespace # "") => kptfile.Inventory.Namespace = k0.namespace

\* C4 (as stated): a merge-branch run overwrites a field only with a
\* non-empty desired value that differs; without a desired value the stored
\* value is kept, a non-empty stored namespace included.
C4_OverwriteOnlyWhenDesired ==
  MergeOk =>
    /\ k0.InventoryID = "" => kptfile.Inventory.InventoryID = StoredInv.InventoryID
    /\ kptfile.Inventory.InventoryID # StoredInv.InventoryID
         => kptfile.Inventory.InventoryID = k0.InventoryID
    /\ k0.Name = "" => kptfile.Inventory.Name = StoredInv.Name
    /\ kptfile.Inventory.Name # StoredInv.Name => kptfile.Inventory.Name = k0.Name
    /\ (k0.namespace = "" /\ k0.InventoryNamespace = "" /\ StoredInv.Namespace # "")
         => kptfile.Inventory.Namespace = StoredInv.Namespace
    /\ (kptfile.Inventory.Namespace # StoredInv.Namespace /\ StoredInv.Namespace # "")
         => kptfile.Inventory.Namespace \in ({k0.namespace, k0.InventoryNamespace} \ {""})

\* C4 (amended): InventoryID and Name are overwritten only by a non-empty
\* desired value that differs and are kept otherwise; for the namespace an
\* empty per-unit namespace and an empty InventoryNamespace first become
\* "default", the stored namespace is kept exactly when it equals both and is
\* otherwise replaced by one of them; with neither requested it becomes
\* "default".
C4_MergeRule ==
  MergeOk =>
    /\ k0.InventoryID = "" => kptfile.Inventory.InventoryID = StoredInv.InventoryID
    /\ kptfile.Inventory.InventoryID # StoredInv.InventoryID
         => kptfile.Inventory.InventoryID = k0.InventoryID
    /\ k0.Name = "" => kptfile.Inventory.Name = StoredInv.Name
    /\ kptfile.Inventory.Name # StoredInv.Name => kptfile.Inventory.Name = k0.Name
    /\ (k0.namespace = "" /\ k0.InventoryNamespace = "")
         => kptfile.Inventory.Namespace = "default"
    /\ LET ns == IF k0.namespace = "" THEN "default" ELSE k0.namespace
           invNs == IF k0.InventoryNamespace = "" THEN "default" ELSE k0.InventoryNamespace
       IN /\ kptfile.Inventory.Namespace = StoredInv.Namespace
               <=> (ns = StoredInv.Namespace /\ invNs = StoredInv.Namespace)
          /\ kptfile.Inventory.Namespace # StoredInv.Namespace
               => kptfile.Inventory.Namespace \in {ns, invNs}

\* C4 witness: a merge run with no namespace requested replaced the stored
\* "ns-a" by "default" and kept id and name, none being requested.
C4_Witness ==
  /\ MergeOk
  /\ k0.namespace = "" /\ k0.InventoryNamespace = "" /\ k0.Name = "" /\ k0.InventoryID = ""
  /\ StoredInv = InventoryOf("x", "old", "ns-a")
  /\ kptfile.Inventory = InventoryOf("x", "old", "default")

\* C5: a run that decoded the Kptfile calls `kpt live init` exactly once and
\* stays out of the merge branch (no write, no warning, Deployer untouched)
\* when the file had no inventory block, never calls it when the file had
\* one, and no run both calls `kpt live init` and writes the Kptfile.
C5_BranchExclusive ==
  /\ (Parsed /\ ~StoredInv.present)
       => (N("live init") = 1 /\ N("write") = 0 /\ warnings = <<>> /\ k = k0)
  /\ (Parsed /\ StoredInv.present) => N("live init") = 0
  /\ ~(N("live init") > 0 /\ N("write") > 0)

\* C5 witness: the reconciler returned after `kpt live init` on an existing
\* Kptfile without inventory.
C5_Witness ==
  /\ pc = "initDone" /\ Parsed /\ file0.exists /\ ~StoredInv.present
  /\ N("live init") = 1 /\ kptfile.Inventory.present

\* C6: a run on a missing Kptfile calls `kpt pkg init` exactly once, before
\* any open of the Kptfile; a run on an existing Kptfile never calls it.
C6_PkgInitIffAbsent ==
  /\ (op # "none" /\ pc \notin {"stat", "pkgInit"})
       => N("pkg init") = (IF file0.exists THEN 0 ELSE 1)
  /\ N("pkg init") <= 1
  /\ (N("open") > 0 /\ ~file0.exists)
       => (FirstCall(calls, "pkg init") > 0
           /\ FirstCall(calls, "pkg init") < FirstCall(calls, "open"))

\* C6 witness: the reconciler returned nil on a Kptfile that was missing,
\* after one `kpt pkg init` followed by one open.
C6_Witness ==
  /\ pc = "initDone" /\ err = "nil" /\ ~file0.exists
  /\ N("pkg init") = 1 /\ N("open") = 1

\* C7 (as stated): whenever Deploy is at or past `kpt live apply` the Kptfile
\* exists and carries an inventory block, and once an apply has succeeded
\* the inventory is non-empty after every later Deploy / Cleanup.
C7_ApplyNeedsInventory ==
  /\ (pc = "apply" \/ N("live apply") > 0)
       => (kptfile.exists /\ kptfile.wellformed /\ kptfile.Inventory.present)
  /\ (applied /\ pc = "idle") => kptfile.Inventory.present

\* the part of C7 about the moment of the apply, on its own
ApplyTimeInventory ==
  (pc = "apply" \/ N("live apply") > 0)
    => (kptfile.exists /\ kptfile.wellformed /\ kptfile.Inventory.present)

\* the argument list of the `kpt live init` call of the current operation
LiveInitCallArgs == calls[FirstCall(calls, "live init")].args

\* the bootstrap scenario: no Kptfile, name "app1", nothing else requested,
\* and the reconciler has returned nil
BootstrapScenario ==
  /\ pc = "initDone" /\ err = "nil" /\ ~file0.exists
  /\ k0.Name = "app1" /\ k0.InventoryID = ""
  /\ k0.namespace = "" /\ k0.InventoryNamespace = ""

\* C8 (as stated): in the bootstrap scenario `kpt pkg init` runs, then
\* `kpt live init` with `--name app1`, and the new inventory gets the
\* fallback namespace "default".
C8_BootstrapAppliesFallback ==
  BootstrapScenario =>
    /\ N("pkg init") = 1 /\ N("live init") = 1
    /\ FirstCall(calls, "pkg init") < FirstCall(calls, "live init")
    /\ HasFlag(LiveInitCallArgs, "--name", "app1")
    /\ kptfile.Inventory.Namespace = defaultNs

\* C8 (amended): in the bootstrap scenario `kpt pkg init` runs, then
\* `kpt live init` with `--name app1` and neither `--inventory-id` nor
\* `--namespace`; the reconciler applies no fallback namespace in this
\* branch: the Deployer keeps its empty namespaces and the namespace of the
\* new inventory is the external tool's choice.
C8_BootstrapScenario ==
  BootstrapScenario =>
    /\ N("pkg init") = 1 /\ N("live init") = 1
    /\ FirstCall(calls, "pkg init") < FirstCall(calls, "live init")
    /\ HasFlag(LiveInitCallArgs, "--name", "app1")
    /\ ~HasOpt(LiveInitCallArgs, "--namespace")
    /\ ~HasOpt(LiveInitCallArgs, "--inventory-id")
    /\ k = k0
    /\ kptfile.Inventory.present /\ kptfile.Inventory.Name = "app1"

\* C8 witness: the bootstrap scenario ended with an inventory whose namespace
\* is not the fallback.
C8_Witness ==
  /\ BootstrapScenario
  /\ N("live init") = 1
  /\ kptfile.Inventory.Namespace = "ns-a"

\* C9: a merge-branch run on an inventory with an empty namespace, with no
\* per-unit namespace and no InventoryNamespace, stores "default".
C9_NamespaceDefault ==
  (MergeOk /\ StoredInv.present /\ StoredInv.Namespace = ""
     /\ k0.namespace = "" /\ k0.InventoryNamespace = "")
    => kptfile.Inventory.Namespace = "default"

\* C9 witness: such a run has returned nil and the Kptfile says "default".
C9_Witness ==
  /\ MergeOk /\ StoredInv.present /\ StoredInv.Namespace = ""
  /\ k0.namespace = "" /\ k0.InventoryNamespace = ""
  /\ kptfile.Inventory.Namespace = "default"

\* the merge branch has run in the current operation
MergeDone == op # "none" /\ (pc = "write" \/ N("write") > 0)

\* the Kptfile field a warning's field name stands for
FieldOf(f) ==
  CASE f = "inventory" -> "InventoryID"
    [] f = "name" -> "Name"
    [] OTHER -> "Namespace"

WarnsFor(f) == LET Test(w) == w.field = f IN SelectSeq(warnings, Test)

\* C10: in a merge-branch run each of inventory id, name and namespace has
\* one warning exactly when the run changed it, none otherwise, and the
\* warning names the stored and the new value; what a successful run leaves
\* in the Kptfile is the merged inventory.  For stored {x, old, default} and
\* only name "new" requested: one warning, for the name, and one write.
C10_AuditMatchesChanges ==
  MergeDone =>
    /\ \A f \in {"inventory", "name", "namespace"} :
         Len(WarnsFor(f)) = (IF kfConfig[FieldOf(f)] # StoredInv[FieldOf(f)] THEN 1 ELSE 0)
    /\ \A i \in 1..Len(warnings) :
         /\ warnings[i].field \in {"inventory", "name", "namespace"}
         /\ warnings[i].old = StoredInv[FieldOf(warnings[i].field)]
         /\ warnings[i].new = kfConfig[FieldOf(warnings[i].field)]
    /\ MergeOk => kptfile.Inventory = kfConfig
    /\ ( /\ MergeReturned
         /\ StoredInv = InventoryOf("x", "old", "default")
         /\ k0.Name = "new" /\ k0.InventoryID = ""
         /\ k0.namespace = "" /\ k0.InventoryNamespace = "" )
       => /\ warnings = <<Warn("name", "old", "new")>>
          /\ N("write") = 1
          /\ kfConfig = InventoryOf("x", "new", "default")

\* C10 witness: the scenario's run has returned nil with the name changed.
C10_Witness ==
  /\ MergeOk
  /\ StoredInv = InventoryOf("x", "old", "default")
  /\ k0.Name = "new" /\ k0.InventoryID = ""
  /\ k0.namespace = "" /\ k0.InventoryNamespace = ""
  /\ kptfile.Inventory = InventoryOf("x", "new", "default")
  /\ Len(warnings) = 1


\* whether the first call named cmd of the current operation succeeded
OutcomeOf(cmd) == outcomes[FirstCall(calls, cmd)]

InfoEvents ==
  {"could not read the hydrated manifest", "could not fetch deployed resource namespace"}

\* C11: a failed `kpt fn source` leaves a nil manifest list and an
\* informational event and Deploy goes on; every Deploy whose reconciler
\* succeeded calls `kpt fn source` and `kpt live apply` exactly once whatever
\* the renderer and the namespace collection did, and when the apply succeeds
\* it tracks the artifacts and returns nil with the collected namespaces.
C11_RenderFailureNonFatal ==
  /\ (N("fn source") > 0 /\ ~OutcomeOf("fn source"))
       => /\ manifests = "nil"
          /\ events = <<"could not read the hydrated manifest">>
          /\ pc \in {"collectNamespaces", "apply", "idle"}
  /\ \A i \in 1..Len(events) : events[i] \in InfoEvents
  /\ (\E i \in 1..Len(events) : events[i] = "could not fetch deployed resource namespace")
       => (pc \in {"apply", "idle"} /\ namespaces = <<>>)
  /\ (op = "deploy" /\ pc = "idle" /\ prev.err = "nil")
       => /\ N("fn source") = 1 /\ N("live apply") = 1
          /\ OutcomeOf("live apply") => (tracked /\ err = "nil" /\ retNs = namespaces)

\* C11 witness: a Deploy whose renderer failed has applied, tracked the
\* artifacts and returned nil.
C11_Witness ==
  /\ op = "deploy" /\ pc = "idle"
  /\ N("fn source") = 1 /\ ~OutcomeOf("fn source")
  /\ events # <<>>
  /\ N("live apply") = 1 /\ tracked /\ err = "nil"

\* C12: when `kpt live apply` fails Deploy returns liveApplyErr with no
\* namespaces and without tracking the artifacts; artifacts are tracked only
\* after the one successful apply.
C12_ApplyFailureFatal ==
  /\ (N("live apply") > 0 /\ ~OutcomeOf("live apply"))
       => (pc = "idle" /\ err = "liveApplyErr" /\ retNs = <<>> /\ ~tracked)
  /\ tracked => (N("live apply") = 1 /\ OutcomeOf("live apply"))

\* C12 witness: an apply failed after a namespace had been collected.
C12_Witness ==
  /\ N("live apply") = 1 /\ ~OutcomeOf("live apply")
  /\ namespaces = <<"ns-a">> /\ retNs = <<>> /\ err = "liveApplyErr"

\* C13: the renderer, the namespace collection, `kpt live apply`, artifact
\* tracking and `kpt live destroy` happen only after the reconciler returned
\* nil in the same operation; when it returned an error the operation returns
\* that error, with no namespaces, having done none of them.
C13_ReconcileFailureAborts ==
  /\ ( \/ pc \in {"getManifests", "collectNamespaces", "apply", "destroy"}
       \/ N("fn source") > 0 \/ N("live apply") > 0 \/ N("live destroy") > 0
       \/ tracked \/ events # <<>> )
       => prev.err = "nil"
  /\ (op # "none" /\ pc = "idle" /\ prev.err # "nil")
       => /\ err = prev.err /\ retNs = <<>> /\ ~tracked /\ events = <<>>
          /\ N("fn source") = 0 /\ N("live apply") = 0 /\ N("live destroy") = 0

\* C13 witness: a Deploy returned the error of a failed `kpt live init`.
C13_Witness ==
  /\ op = "deploy" /\ pc = "idle" /\ err = "liveInitErr"
  /\ N("live init") = 1 /\ N("fn source") = 0


\* the Kptfile carries an inventory block
HasInventory == kptfile.exists /\ kptfile.wellformed /\ kptfile.Inventory.present

\* C14: `kpt live destroy` is only called by a Cleanup whose reconciler
\* returned nil, as its last call and at most once, on a Kptfile that carries
\* an inventory block, after a successful `kpt pkg init` when the file was
\* missing and a successful `kpt live init` when it had no inventory; Cleanup
\* returns liveDestroyErr when the destroy fails and nil when it succeeds.
C14_CleanupReconcilesFirst ==
  /\ (pc = "destroy" \/ N("live destroy") > 0)
       => /\ op = "cleanup" /\ prev.err = "nil" /\ HasInventory
          /\ ~file0.exists => (N("pkg init") = 1 /\ OutcomeOf("pkg init"))
          /\ ~StoredInv.present => (N("live init") = 1 /\ OutcomeOf("live init"))
  /\ N("live destroy") > 0
       => /\ pc = "idle" /\ N("live destroy") = 1
          /\ FirstCall(calls, "live destroy") = Len(calls)
          /\ err = (IF OutcomeOf("live destroy") THEN "nil" ELSE "liveDestroyErr")

\* C14 witness: a Cleanup that started without a Kptfile bootstrapped it and
\* then returned the error of a failed destroy.
C14_Witness ==
  /\ op = "cleanup" /\ pc = "idle" /\ ~file0.exists
  /\ N("live destroy") = 1 /\ ~OutcomeOf("live destroy")
  /\ err = "liveDestroyErr" /\ HasInventory

\* the reconciler has returned and nothing ran after it
ReturnedFromInit == pc \in {"initDone", "idle"}

\* C15: a failed `kpt pkg init` returns pkgInitErr with no open, no
\* `kpt live init`, no write and the Kptfile as it was; a failed
\* `kpt live init` returns liveInitErr with no write and the Kptfile as it was
\* before the call; a failed open or decode returns its error with the open
\* as the last call, so with no initializer call after it and no write.
C15_InitializerFailuresFatal ==
  /\ (N("pkg init") > 0 /\ ~OutcomeOf("pkg init"))
       => /\ ReturnedFromInit /\ err = "pkgInitErr"
          /\ N("open") = 0 /\ N("live init") = 0 /\ N("write") = 0
          /\ kptfile = file0
  /\ (N("live init") > 0 /\ ~OutcomeOf("live init"))
       => /\ ReturnedFromInit /\ err = "liveInitErr"
          /\ N("write") = 0
          /\ kptfile = (IF file0.exists THEN file0 ELSE FileOf(NilInventory))
  /\ ((N("open") > 0 /\ ~OutcomeOf("open")) \/ err = "parseFileErr")
       => /\ ReturnedFromInit /\ err \in {"openFileErr", "parseFileErr"}
          /\ calls[Len(calls)].cmd = "open"
          /\ N("live init") = 0 /\ N("write") = 0
  /\ err = "openFileErr" <=> (N("open") > 0 /\ ~OutcomeOf("open"))

\* C15 witness: `kpt pkg init` created the Kptfile, `kpt live init` failed and
\* the reconciler returned liveInitErr leaving the fresh file without
\* inventory.
C15_Witness ==
  /\ pc = "initDone" /\ ~file0.exists /\ err = "liveInitErr"
  /\ N("pkg init") = 1 /\ N("live init") = 1 /\ ~OutcomeOf("live init")
  /\ kptfile = FileOf(NilInventory)


\* C16 (as stated): the write of the merge branch is all-or-nothing: whatever
\* its outcome, the Kptfile holds either the complete old content or the
\* complete new content.
C16_WriteAllOrNothing ==
  N("write") > 0 => kptfile \in {file0, FileOf(kfConfig)}

\* C17 (as stated): no step ever deletes the Kptfile or removes an existing
\* inventory block.
C17_LifecycleMonotone ==
  [][ /\ kptfile.exists => kptfile'.exists
      /\ (kptfile.exists /\ kptfile.wellformed /\ kptfile.Inventory.present)
           => (kptfile'.exists /\ kptfile'.wellformed /\ kptfile'.Inventory.present) ]_vars

\* the calls an operation can make
Cmds ==
  {"stat", "pkg init", "open", "live init", "write", "fn source", "live apply",
   "live destroy"}

\* how far into an operation a position is
Rank(p) ==
  CASE p = "stat" -> 1
    [] p = "pkgInit" -> 2
    [] p = "open" -> 3
    [] p = "decode" -> 4
    [] p = "liveInit" -> 5
    [] p = "merge" -> 5
    [] p = "write" -> 6
    [] p = "initDone" -> 7
    [] p = "getManifests" -> 8
    [] p = "destroy" -> 8
    [] p = "collectNamespaces" -> 9
    [] p = "apply" -> 10
    [] OTHER -> 11

\* C18: within one operation every collaborator is called at most once and
\* the Kptfile is written at most once; every step moves the operation
\* strictly forward, so it makes at most ten steps, and once its calls return
\* it ends, with nil or one error.
C18_NoRetries ==
  /\ [](\A cmd \in Cmds : N(cmd) <= 1)
  /\ [](Len(outcomes) = Len(calls))
  /\ [][(pc = "idle" /\ pc' = "stat") \/ Rank(pc') > Rank(pc)]_vars
  /\ [](pc # "idle" => <>(pc = "idle"))
  /\ [](err \in {"nil", "pkgInitErr", "openFileErr", "parseFileErr", "liveInitErr",
                  "writeFileErr", "liveApplyErr", "liveDestroyErr"})

\* C18 witness: a Deploy has ended after a failed `kpt pkg init`, called once.
C18_Witness ==
  /\ op = "deploy" /\ pc = "idle" /\ err = "pkgInitErr"
  /\ N("pkg init") = 1 /\ ~OutcomeOf("pkg init") /\ Len(calls) = 2

\* C19 (as stated): a merge-branch run that follows a successful merge-branch
\* run of the same Deployer leaves the stored inventory as that run left it.
C19_MergeFixedPoint ==
  (MergeOk /\ prevMerge /\ prev.err = "nil") => kptfile.Inventory = file0.Inventory

\* C20: the reconciler changes no Deployer field but namespace and
\* InventoryNamespace; it changes those only in the merge branch, each to
\* "default" exactly when it was empty; before the merge branch, in the init
\* branch and on every earlier error return the Deployer is as it was.
C20_DeployerFrame ==
  /\ k.Name = k0.Name /\ k.InventoryID = k0.InventoryID /\ k.Force = k0.Force
  /\ k.Flags = k0.Flags /\ k.ApplyFlags = k0.ApplyFlags
  /\ MergeDone
       => /\ k.namespace = (IF k0.namespace = "" THEN "default" ELSE k0.namespace)
          /\ k.InventoryNamespace =
               (IF k0.InventoryNamespace = "" THEN "default" ELSE k0.InventoryNamespace)
  /\ ~MergeDone => k = k0

\* C20 witness: a merge-branch run defaulted the empty per-unit namespace and
\* left the requested InventoryNamespace alone.
C20_Witness ==
  /\ MergeReturned
  /\ k0.namespace = "" /\ k0.InventoryNamespace = "ns-c"
  /\ k.namespace = "default" /\ k.InventoryNamespace = "ns-c"

====
